---- MODULE Spec2Model ----
(***************************************************************************)
(* Model of app/src/main/cpp/qwen3_embedding_jni.cpp: the JNI embedding    *)
(* engine (nativeInit / nativeEmbed / nativeRelease) called by host        *)
(* threads.  Every host thread is a process with a program counter; one    *)
(* action per statement group of the three JNI entry points.               *)
(***************************************************************************)
EXTENDS Integers, Sequences, FiniteSets, TLC

\* ------------------------------------------------------------------ bounds
NumThreads == 2   \* host threads calling into the library
MaxAddr    == 2   \* heap addresses an EmbeddingState can be allocated at
MaxCalls   == 3   \* JNI calls the host makes in one run
NCtx       == 2   \* llama_n_ctx of a context (4096 requested at line 114)
NEmbd      == 2   \* llama_model_n_embd of the model file
MaxFloat   == 4   \* largest element of a vector normalize_l2 is tried on

Threads  == 1..NumThreads
Addr     == 1..MaxAddr
MaxTextLen == NCtx + 1

\* ------------------------------------------------------------- host inputs
\* A jstring: null, or a text; a text is the sequence of its characters, and
\* every character is the letter "a".
Letter == "a"
JNull == [null |-> TRUE, s |-> <<>>]
JStr(s) == [null |-> FALSE, s |-> s]
RECURSIVE Rep(_, _)
Rep(x, n) == IF n = 0 THEN <<>> ELSE <<x>> \o Rep(x, n - 1)
Texts == {JNull} \cup {JStr(Rep(Letter, n)) : n \in 0..MaxTextLen}
\* Model paths: null, a file that does not load, a model file (a path is a
\* text of one piece, its file name).
GoodPath == <<"model.gguf">>
BadPath  == <<"missing.gguf">>
Paths == {JNull, JStr(BadPath), JStr(GoodPath)}

VARIABLES
  pc,               \* control point of every host thread
  handle,           \* nativeEmbed/nativeRelease: handle; nativeInit: state
  text,             \* nativeEmbed: text / nativeInit: model_path
  tokens,           \* nativeEmbed: tokens
  batch,            \* nativeEmbed: batch (token, pos, n_seq_id, seq_id, logits)
  decode_result,    \* nativeEmbed: decode_result
  batch_live,       \* llama_batch allocations of the thread not yet freed
  ret,              \* what the thread's last call returned, and its log line
                    \* (h: the handle init returned, or release destroyed)
  heap,             \* EmbeddingState objects, by address
  heap_top,         \* addresses 1..heap_top have been handed out by new
  models,           \* llama_model objects, by id
  ctxs,             \* llama_context objects, by id
  g_backend_mutex,  \* holder of g_backend_mutex, 0 when free
  g_backend_ready,
  backend_inits,    \* number of llama_backend_init() executions
  handles,          \* handles the host holds: returned by init, not released
  calls,            \* JNI calls made so far
  output            \* the vector normalize_l2 works on, when the function
                    \* runs on its own (SpecNormalize); empty otherwise

locals == <<handle, text, tokens, batch, decode_result>>
llama  == <<models, ctxs>>
backend == <<g_backend_mutex, g_backend_ready, backend_inits>>
vars == <<pc, locals, ret, heap, heap_top, llama, batch_live, backend, handles,
         calls, output>>

\* ---------------------------------------------------------------- objects
\* struct EmbeddingState, lines 14-20, as `new EmbeddingState()` builds it.
EmbeddingState == [live |-> TRUE, model |-> 0, ctx |-> 0, n_embd |-> 0,
                   n_ctx |-> 0, mutex |-> 0]
FreeState == [EmbeddingState EXCEPT !.live = FALSE]
NoModel == [live |-> FALSE, path |-> <<>>]
\* A llama_context: its memory (the key/value cache, the tokens decoded since
\* the last clear) and the pooled embedding of sequence 0 (embd_src: the
\* memory content it was computed from).
NoCtx   == [live |-> FALSE, model |-> 0, mem |-> <<>>, has_embd |-> FALSE,
            embd_src |-> <<>>]
NoBatch == [n_tokens |-> 0, token |-> <<>>, pos |-> <<>>,
            n_seq_id |-> <<>>, seq_id |-> <<>>, logits |-> <<>>]
NoRet   == [op |-> "none", null |-> TRUE, val |-> <<>>, h |-> 0, log |-> ""]

LiveAddrs  == {a \in Addr : heap[a].live}
LiveModels == {m \in Addr : models[m].live}
LiveCtxs   == {c \in Addr : ctxs[c].live}
Min(S) == CHOOSE x \in S : \A y \in S : x <= y

Init ==
  /\ pc = [t \in Threads |-> "idle"]
  /\ handle = [t \in Threads |-> 0]
  /\ text = [t \in Threads |-> JNull]
  /\ tokens = [t \in Threads |-> <<>>]
  /\ batch = [t \in Threads |-> NoBatch]
  /\ decode_result = [t \in Threads |-> 0]
  /\ batch_live = [t \in Threads |-> 0]
  /\ ret = [t \in Threads |-> NoRet]
  /\ heap = [a \in Addr |-> FreeState]
  /\ heap_top = 0
  /\ models = [m \in Addr |-> NoModel]
  /\ ctxs = [c \in Addr |-> NoCtx]
  /\ g_backend_mutex = 0
  /\ g_backend_ready = FALSE
  /\ backend_inits = 0
  /\ handles = {}
  /\ calls = 0
  /\ output = <<>>

\* A call returns: the locals die, the result and log line stay visible.
Return(t, op, isNull, val, h, log) ==
  /\ pc' = [pc EXCEPT ![t] = "idle"]
  /\ handle' = [handle EXCEPT ![t] = 0]
  /\ text' = [text EXCEPT ![t] = JNull]
  /\ tokens' = [tokens EXCEPT ![t] = <<>>]
  /\ batch' = [batch EXCEPT ![t] = NoBatch]
  /\ decode_result' = [decode_result EXCEPT ![t] = 0]
  /\ ret' = [ret EXCEPT ![t] = [op |-> op, null |-> isNull, val |-> val,
                                 h |-> h, log |-> log]]

ReturnInit(t, h, log) == Return(t, "init", h = 0, <<>>, h, log)
ReturnEmbedNull(t, log) == Return(t, "embed", TRUE, <<>>, 0, log)
ReturnEmbed(t, val) == Return(t, "embed", FALSE, val, 0, "")
ReturnRelease(t) == Return(t, "release", TRUE, <<>>, 0, "")

Goto(t, l) == pc' = [pc EXCEPT ![t] = l]

\* ------------------------------------------------------------- nativeInit
InitPcs == {"ensure_backend", "ensure_ready", "init_load", "init_ctx"}
InInit(t) == pc[t] \in InitPcs

\* The host calls nativeInit(model_path).  The heap has room for MaxAddr
\* EmbeddingState objects: the host starts no init that could find it full.
CallInit(t, p) ==
  /\ pc[t] = "idle"
  /\ calls < MaxCalls
  /\ Cardinality({a \in Addr : heap[a].live})
       + Cardinality({u \in Threads : pc[u] \in {"ensure_backend", "ensure_ready",
                                                  "init_load"}})
       < MaxAddr
  /\ calls' = calls + 1
  /\ UNCHANGED output
  /\ Goto(t, "ensure_backend")
  /\ text' = [text EXCEPT ![t] = p]
  /\ ret' = [ret EXCEPT ![t] = NoRet]
  /\ UNCHANGED <<handle, tokens, batch, decode_result, heap, heap_top, llama,
                 batch_live, backend, handles>>

\* Mutant: ensure_backend does not take g_backend_mutex.
BackendMutexFree_NoWait(t) == TRUE

\* ensure_backend, line 26: std::lock_guard on g_backend_mutex waits until the
\* mutex is free.
BackendMutexFree(t) == g_backend_mutex = 0

\* ensure_backend, lines 26-30: lock; if ready return (unlocks), else
\* llama_backend_init().
EnsureBackend(t) ==
  /\ pc[t] = "ensure_backend"
  /\ BackendMutexFree(t)
  /\ IF g_backend_ready
       THEN /\ Goto(t, "init_load")
            /\ UNCHANGED <<g_backend_mutex, backend_inits>>
       ELSE /\ g_backend_mutex' = t
            /\ backend_inits' = backend_inits + 1
            /\ Goto(t, "ensure_ready")
  /\ UNCHANGED <<locals, ret, heap, llama, batch_live, g_backend_ready,
                 handles, heap_top, calls, output>>

\* ensure_backend, lines 31-32: set the flag, return (unlocks).
EnsureReady(t) ==
  /\ pc[t] = "ensure_ready"
  /\ g_backend_ready' = TRUE
  /\ g_backend_mutex' = 0
  /\ Goto(t, "init_load")
  /\ UNCHANGED <<locals, ret, heap, llama, batch_live, backend_inits,
                 handles, heap_top, calls, output>>

\* Mutant: operator new hands out storage that is still in use.
FreeAddrs_InUse == 1..(IF heap_top < MaxAddr THEN heap_top + 1 ELSE MaxAddr)

\* operator new, line 97: any address not in use: one that was freed, or a new
\* one (addresses are names, so the new ones are taken in increasing order).
FreeAddrs == {a \in 1..heap_top : ~heap[a].live}
               \cup (IF heap_top < MaxAddr THEN {heap_top + 1} ELSE {})
NewTop(a) == IF a > heap_top THEN a ELSE heap_top

\* operator delete, lines 107, 126, 234: the storage goes back to the heap.
DeleteState(h, a) == [h EXCEPT ![a] = FreeState]

\* llama_model_free, lines 125, 231.
llama_model_free(ms, m) == [ms EXCEPT ![m] = NoModel]

\* llama_free, line 227.
llama_free(cs, c) == [cs EXCEPT ![c] = NoCtx]

\* llama_model_load_from_file, line 104: a model, or nullptr (the file does not
\* load, or the loader fails for lack of memory).
llama_model_load_from_file(p) ==
  {0} \cup (IF p = GoodPath THEN {Min(Addr \ LiveModels)} ELSE {})

\* nativeInit, lines 105-109: load failed; the state was allocated at a and is
\* deleted again.
InitLoadFail(t, a) ==
  /\ heap' = DeleteState([heap EXCEPT ![a] = EmbeddingState], a)
  /\ heap_top' = NewTop(a)
  /\ ReturnInit(t, 0, "Failed to load model")
  /\ UNCHANGED models

\* nativeInit, lines 89-109: null path returns 0; else new EmbeddingState()
\* and the model load.
InitLoad(t) ==
  /\ pc[t] = "init_load"
  /\ IF text[t].null
       THEN /\ ReturnInit(t, 0, "Model path is null")
            /\ UNCHANGED <<heap, heap_top, models>>
       ELSE \E a \in FreeAddrs, m \in llama_model_load_from_file(text[t].s) :
              IF m = 0
                THEN InitLoadFail(t, a)
                ELSE /\ models' = [models EXCEPT ![m] = [live |-> TRUE, path |-> text[t].s]]
                     /\ heap' = [heap EXCEPT ![a] = [EmbeddingState EXCEPT !.model = m]]
                     /\ heap_top' = NewTop(a)
                     /\ handle' = [handle EXCEPT ![t] = a]
                     /\ Goto(t, "init_ctx")
                     /\ UNCHANGED <<text, tokens, batch, decode_result, ret>>
  /\ UNCHANGED <<ctxs, batch_live, backend, handles, calls, output>>

\* Mutant: the failure path of lines 123-128 without llama_model_free.
InitCtxFail_Leak(t) ==
  /\ heap' = DeleteState(heap, handle[t])
  /\ ReturnInit(t, 0, "Failed to init context")
  /\ UNCHANGED <<models, ctxs, handles>>

\* nativeInit, lines 123-128: context construction failed.
InitCtxFail(t) ==
  /\ models' = llama_model_free(models, heap[handle[t]].model)
  /\ heap' = DeleteState(heap, handle[t])
  /\ ReturnInit(t, 0, "Failed to init context")
  /\ UNCHANGED <<ctxs, handles>>

\* llama_model_n_embd / llama_n_ctx of the objects the library built.
llama_model_n_embd(m) == NEmbd
llama_n_ctx(c) == NCtx

\* llama_init_from_model, line 122: a context, or nullptr.
llama_init_from_model(m) == {0, Min(Addr \ LiveCtxs)}

\* nativeInit, lines 111-135: build the context; on success record n_embd and
\* n_ctx and return the handle.
InitCtx(t) ==
  /\ pc[t] = "init_ctx"
  /\ \E c \in llama_init_from_model(heap[handle[t]].model) :
       IF c = 0
         THEN InitCtxFail(t)
         ELSE /\ ctxs' = [ctxs EXCEPT ![c] = [NoCtx EXCEPT !.live = TRUE,
                                                !.model = heap[handle[t]].model]]
              /\ heap' = [heap EXCEPT ![handle[t]].ctx = c,
                            ![handle[t]].n_embd = llama_model_n_embd(heap[handle[t]].model),
                            ![handle[t]].n_ctx = llama_n_ctx(c)]
              /\ handles' = handles \cup {handle[t]}
              /\ ReturnInit(t, handle[t], "")
              /\ UNCHANGED models
  /\ UNCHANGED <<batch_live, backend, heap_top, calls, output>>

\* ------------------------------------------------------------ nativeEmbed
EmbedPcs == {"embed_enter", "embed_lock", "embed_clear", "embed_decode",
             "embed_free", "embed_get"}
\* Between acquiring state->mutex (line 162) and returning.
EmbedCsPcs == {"embed_clear", "embed_decode", "embed_free", "embed_get"}
InEmbed(t) == pc[t] \in EmbedPcs
InEmbedCs(t) == pc[t] \in EmbedCsPcs

\* The host calls nativeEmbed(handle, text) with null or a handle it holds.
CallEmbed(t, h, x) ==
  /\ pc[t] = "idle"
  /\ calls < MaxCalls
  /\ h \in handles \cup {0}
  /\ calls' = calls + 1
  /\ UNCHANGED output
  /\ Goto(t, "embed_enter")
  /\ handle' = [handle EXCEPT ![t] = h]
  /\ text' = [text EXCEPT ![t] = x]
  /\ ret' = [ret EXCEPT ![t] = NoRet]
  /\ UNCHANGED <<tokens, batch, decode_result, heap, heap_top, llama,
                 batch_live, backend, handles>>

\* Mutant: the null-text check of lines 154-158 comes first.
EmbedEnter_TextFirst(t) ==
  /\ pc[t] = "embed_enter"
  /\ IF text[t].null
       THEN ReturnEmbedNull(t, "Embedding text is null")
       ELSE IF handle[t] = 0
         THEN ReturnEmbedNull(t, "Embedding handle is null")
         ELSE IF heap[handle[t]].ctx = 0 \/ heap[handle[t]].model = 0
           THEN ReturnEmbedNull(t, "Embedding state is invalid")
           ELSE /\ Goto(t, "embed_lock")
                /\ UNCHANGED <<locals, ret>>
  /\ UNCHANGED <<heap, llama, batch_live, backend, handles, heap_top, calls, output>>

\* nativeEmbed, lines 145-160: the three precondition checks, in order.
EmbedEnter(t) ==
  /\ pc[t] = "embed_enter"
  /\ IF handle[t] = 0
       THEN ReturnEmbedNull(t, "Embedding handle is null")
       ELSE IF heap[handle[t]].ctx = 0 \/ heap[handle[t]].model = 0
         THEN ReturnEmbedNull(t, "Embedding state is invalid")
         ELSE IF text[t].null
           THEN ReturnEmbedNull(t, "Embedding text is null")
           ELSE /\ Goto(t, "embed_lock")
                /\ UNCHANGED <<locals, ret>>
  /\ UNCHANGED <<heap, llama, batch_live, backend, handles, heap_top, calls, output>>

\* llama_tokenize, lines 47-55 (add_special, no parse_special), as llama.h
\* documents it: the number of tokens on success, no more than n_tokens_max; on
\* failure a negative number, minus the number of tokens that would have been
\* returned, and nothing written to the buffer.  The vocabulary has one token
\* per character; the letter's token is 1 (0 is what the buffer of line 46
\* holds before the call).
TokenOf(ch) == 1
FullTokens(s) == [i \in 1..Len(s) |-> TokenOf(s[i])]
llama_tokenize(s, n_tokens_max) ==
  IF Len(s) > n_tokens_max
    THEN [count |-> -Len(s), written |-> <<>>]
    ELSE [count |-> Len(s), written |-> FullTokens(s)]

\* std::vector<llama_token>::resize, lines 62, 172: new elements are 0.
Resize(v, n) == [i \in 1..n |-> IF i <= Len(v) THEN v[i] ELSE 0]

\* tokenize, lines 56-61: a negative count is negated and clamped.
TokenCount(count, max_tokens) ==
  IF count < 0
    THEN (IF -count > max_tokens THEN max_tokens ELSE -count)
    ELSE count

\* tokenize, lines 46-63: the buffer of max_tokens zeros the tokenizer wrote
\* into, resized to the count.
TokensOf(r, max_tokens) ==
  Resize(Resize(r.written, max_tokens), TokenCount(r.count, max_tokens))

\* tokenize, lines 42-64.
tokenize(s, max_tokens) ==
  IF s = <<>>
    THEN <<>>
    ELSE TokensOf(llama_tokenize(s, max_tokens), max_tokens)

\* Mutant: line 166 lets an empty token sequence through.
EmptyTokens_Never(toks) == FALSE

\* nativeEmbed, line 166: tokens.empty().
EmptyTokens(toks) == toks = <<>>

\* nativeEmbed, lines 171-173: the defensive truncation to n_ctx.
Truncate(toks, n_ctx) == IF Len(toks) > n_ctx THEN Resize(toks, n_ctx) ELSE toks

\* Mutant: line 162 does not wait for the mutex.
MutexFree_NoWait(t, a) == TRUE

\* Mutant: line 162 locks one mutex shared by all sessions.
MutexFree_Global(t, a) == \A b \in Addr : heap[b].mutex = 0

\* std::lock_guard<std::mutex> lock(state->mutex), line 162: waits until the
\* mutex is free.
MutexFree(t, a) == heap[a].mutex = 0

\* The session's context and model are there for llama to use (a null or freed
\* one is undefined behaviour, see EmbedUB).
SessionValid(t) == heap[handle[t]].ctx # 0 /\ heap[handle[t]].model # 0

\* Mutant: line 162 locks by hand and the early return of lines 166-169
\* forgets to unlock.
EmbedLock_HeldOnReturn(t) ==
  /\ pc[t] = "embed_lock"
  /\ SessionValid(t)
  /\ MutexFree(t, handle[t])
  /\ heap' = [heap EXCEPT ![handle[t]].mutex = t]
  /\ LET toks == tokenize(text[t].s, heap[handle[t]].n_ctx)
     IN  IF EmptyTokens(toks)
           THEN ReturnEmbedNull(t, "Tokenization produced empty tokens")
           ELSE /\ tokens' = [tokens EXCEPT ![t] = Truncate(toks, heap[handle[t]].n_ctx)]
                /\ Goto(t, "embed_clear")
                /\ UNCHANGED <<handle, text, batch, decode_result, ret>>
  /\ UNCHANGED <<llama, batch_live, backend, handles, heap_top, calls, output>>

\* nativeEmbed, lines 162-173: lock, tokenize, fail on empty tokens, truncate.
EmbedLock(t) ==
  /\ pc[t] = "embed_lock"
  /\ SessionValid(t)
  /\ MutexFree(t, handle[t])
  /\ LET toks == tokenize(text[t].s, heap[handle[t]].n_ctx)
     IN  IF EmptyTokens(toks)
           THEN /\ ReturnEmbedNull(t, "Tokenization produced empty tokens")
                /\ UNCHANGED heap
           ELSE /\ tokens' = [tokens EXCEPT ![t] = Truncate(toks, heap[handle[t]].n_ctx)]
                /\ heap' = [heap EXCEPT ![handle[t]].mutex = t]
                /\ Goto(t, "embed_clear")
                /\ UNCHANGED <<handle, text, batch, decode_result, ret>>
  /\ UNCHANGED <<llama, batch_live, backend, handles, heap_top, calls, output>>

\* Mutant: line 175 is missing, the memory keeps the previous call's tokens.
llama_memory_clear_Skipped(cs, c) == cs

\* llama_memory_clear(llama_get_memory(ctx), true), line 175.
llama_memory_clear(cs, c) == [cs EXCEPT ![c].mem = <<>>]

\* Mutant: line 184 asks for output at the last token only.
BuildBatch_LastLogits(toks) ==
  [n_tokens |-> Len(toks), token |-> toks,
   pos |-> [i \in 1..Len(toks) |-> i - 1],
   n_seq_id |-> [i \in 1..Len(toks) |-> 1],
   seq_id |-> [i \in 1..Len(toks) |-> <<0>>],
   logits |-> [i \in 1..Len(toks) |-> IF i = Len(toks) THEN 1 ELSE 0]]

\* llama_batch_init(n, 0, 1) and the fill loop, lines 177-185.
BuildBatch(toks) ==
  [n_tokens |-> Len(toks), token |-> toks,
   pos |-> [i \in 1..Len(toks) |-> i - 1],
   n_seq_id |-> [i \in 1..Len(toks) |-> 1],
   seq_id |-> [i \in 1..Len(toks) |-> <<0>>],
   logits |-> [i \in 1..Len(toks) |-> 1]]

\* nativeEmbed, lines 175-185: clear the context memory, build the batch.
EmbedClear(t) ==
  /\ pc[t] = "embed_clear"
  /\ SessionValid(t)
  /\ ctxs' = llama_memory_clear(ctxs, heap[handle[t]].ctx)
  /\ batch' = [batch EXCEPT ![t] = BuildBatch(tokens[t])]
  /\ batch_live' = [batch_live EXCEPT ![t] = @ + 1]
  /\ Goto(t, "embed_decode")
  /\ UNCHANGED <<handle, text, tokens, decode_result, ret, heap, models,
                 backend, handles, heap_top, calls, output>>

\* llama_decode(ctx, batch), line 187.  It returns 0 and leaves the batch in
\* the context memory, with the pooled embedding of sequence 0 computed from
\* the whole memory; or it returns non-zero (no room in the memory, or the
\* computation failed), having stored the batch or not.
DecodeFits(cx, b) == Len(cx.mem) + b.n_tokens <= NCtx
DecodeOutcomes(cx, b) ==
  {[result |-> 1, ctx |-> cx]}
  \cup (IF DecodeFits(cx, b)
          THEN {[result |-> 0,
                 ctx |-> [cx EXCEPT !.mem = cx.mem \o b.token,
                                    !.has_embd = (b.logits[b.n_tokens] = 1),
                                    !.embd_src = cx.mem \o b.token]],
                [result |-> -1, ctx |-> [cx EXCEPT !.mem = cx.mem \o b.token]]}
          ELSE {})

\* nativeEmbed, line 187.
EmbedDecode(t) ==
  /\ pc[t] = "embed_decode"
  /\ SessionValid(t)
  /\ LET c == heap[handle[t]].ctx
     IN  \E o \in DecodeOutcomes(ctxs[c], batch[t]) :
           /\ ctxs' = [ctxs EXCEPT ![c] = o.ctx]
           /\ decode_result' = [decode_result EXCEPT ![t] = o.result]
  /\ Goto(t, "embed_free")
  /\ UNCHANGED <<handle, text, tokens, batch, ret, heap, models,
                 batch_live, backend, handles, heap_top, calls, output>>

\* Mutant: line 188 is missing, the batch is never freed.
llama_batch_free_Skipped(bl, t) == bl

\* llama_batch_free(batch), line 188.
llama_batch_free(bl, t) == [bl EXCEPT ![t] = @ - 1]

\* Mutant: the mutex stays locked when the call returns.
Unlock_Forgotten(h, a) == h

\* Leaving the scope of the lock_guard of line 162.
Unlock(h, a) == [h EXCEPT ![a].mutex = 0]

\* nativeEmbed, lines 188-193: free the batch, fail on a non-zero result.
EmbedFree(t) ==
  /\ pc[t] = "embed_free"
  /\ batch_live' = llama_batch_free(batch_live, t)
  /\ IF decode_result[t] # 0
       THEN /\ ReturnEmbedNull(t, "llama_decode failed")
            /\ heap' = Unlock(heap, handle[t])
       ELSE /\ Goto(t, "embed_get")
            /\ UNCHANGED <<locals, ret, heap>>
  /\ UNCHANGED <<llama, backend, handles, heap_top, calls, output>>

\* The pooled embedding the model computes from a memory content: n_embd
\* floats, different for different contents.
RECURSIVE Code(_)
Code(src) == IF src = <<>> THEN 0 ELSE (Head(src) + 1) + 3 * Code(Tail(src))
LlamaEmbd(src) == [i \in 1..NEmbd |-> Code(src) + i - 1]

\* llama_get_embeddings_seq(ctx, 0), line 195: a pointer to the context's
\* pooled embedding of sequence 0, or nullptr.
NullPtr == [null |-> TRUE, v |-> <<>>]
llama_get_embeddings_seq(cx) ==
  {NullPtr} \cup (IF cx.has_embd
                    THEN {[null |-> FALSE, v |-> LlamaEmbd(cx.embd_src)]}
                    ELSE {})

\* nativeEmbed, lines 201-204: copy n_embd floats out of the context.
CopyEmbd(embd, n_embd) == [i \in 1..n_embd |-> embd[i]]

\* normalize_l2, lines 66-78.  A float v * (1 / sqrt(sum)) is the pair
\* [n |-> v, d2 |-> sum]; an unscaled v is [n |-> v, d2 |-> 1].
RECURSIVE SumSq(_)
SumSq(values) ==
  IF values = <<>> THEN 0 ELSE Head(values) * Head(values) + SumSq(Tail(values))

\* Mutant: line 74 without std::sqrt, inv = 1 / sum.
normalize_l2_NoSqrt(values) ==
  LET sum == SumSq(values)
  IN  IF sum <= 0
        THEN [i \in 1..Len(values) |-> [n |-> values[i], d2 |-> 1]]
        ELSE [i \in 1..Len(values) |-> [n |-> values[i], d2 |-> sum * sum]]

\* normalize_l2, lines 66-78, on exact numbers (no float rounding).
normalize_l2(values) ==
  LET sum == SumSq(values)
  IN  IF sum <= 0
        THEN [i \in 1..Len(values) |-> [n |-> values[i], d2 |-> 1]]
        ELSE [i \in 1..Len(values) |-> [n |-> values[i], d2 |-> sum]]

\* NewFloatArray(n_embd), line 207: a zero-filled Java array, or null.
ZeroFloat == [n |-> 0, d2 |-> 1]
NewFloatArray(n) == {[null |-> TRUE, v |-> <<>>],
                     [null |-> FALSE, v |-> [i \in 1..n |-> ZeroFloat]]}

\* Mutant: line 212 copies one element too few.
SetFloatArrayRegion_Short(arr, len, buf) ==
  [i \in 1..Len(arr) |-> IF i <= len - 1 THEN buf[i] ELSE arr[i]]

\* SetFloatArrayRegion(result, 0, len, buf), line 212.
SetFloatArrayRegion(arr, len, buf) ==
  [i \in 1..Len(arr) |-> IF i <= len THEN buf[i] ELSE arr[i]]

\* nativeEmbed, lines 195-213: fetch, copy, normalize, marshal, return.
EmbedGet(t) ==
  /\ pc[t] = "embed_get"
  /\ SessionValid(t)
  /\ LET st == heap[handle[t]]
     IN  \E embd \in llama_get_embeddings_seq(ctxs[st.ctx]) :
           IF embd.null
             THEN ReturnEmbedNull(t, "Failed to get embeddings")
             ELSE LET out == normalize_l2(CopyEmbd(embd.v, st.n_embd))
                  IN  \E result \in NewFloatArray(st.n_embd) :
                        IF result.null
                          THEN ReturnEmbedNull(t, "Failed to allocate float array")
                          ELSE ReturnEmbed(t, SetFloatArrayRegion(result.v, st.n_embd, out))
  /\ heap' = Unlock(heap, handle[t])
  /\ UNCHANGED <<llama, batch_live, backend, handles, heap_top, calls, output>>

\* nativeEmbed running on a session that nativeRelease has torn down under it:
\* state->ctx or state->model read as nullptr and handed to llama (lines 163,
\* 175, 187, 195), or *state read after delete (line 234).  The behaviour is
\* undefined: the call crashes, or returns null, or returns some array.
UsesFreed(t) ==
  \/ pc[t] = "embed_ub"
  \/ pc[t] \in {"embed_lock", "embed_clear", "embed_decode", "embed_get"}
       /\ ~SessionValid(t)
GarbageArrays == {[i \in 1..n |-> ZeroFloat] : n \in 0..NEmbd}
EmbedUB(t) ==
  /\ UsesFreed(t)
  /\ \E o \in {"crash", "null", "array"} :
       CASE o = "crash" -> /\ Goto(t, "crashed")
                           /\ UNCHANGED <<locals, ret>>
         [] o = "null"  -> ReturnEmbedNull(t, "undefined behaviour")
         [] o = "array" -> \E g \in GarbageArrays : ReturnEmbed(t, g)
  /\ UNCHANGED <<heap, llama, batch_live, backend, handles, heap_top, calls, output>>

EmbedNext(t) ==
  \/ \E h \in Addr \cup {0}, x \in Texts : CallEmbed(t, h, x)
  \/ EmbedEnter(t) \/ EmbedLock(t) \/ EmbedClear(t) \/ EmbedDecode(t)
  \/ EmbedFree(t) \/ EmbedGet(t)

\* ---------------------------------------------------------- nativeRelease
ReleasePcs == {"release_ctx", "release_model", "release_delete"}

\* The host calls nativeRelease(handle) with null or a handle it holds, and
\* gives the handle up.  The host of the specification Spec destroys a session
\* when no embed call on it is in progress (section 2 of the design: embed zero
\* or more times, then destroy); SpecRace has a host that does not wait.
CallRelease(t, h) ==
  /\ pc[t] = "idle"
  /\ calls < MaxCalls
  /\ h \in handles \cup {0}
  /\ calls' = calls + 1
  /\ UNCHANGED output
  /\ handles' = handles \ {h}
  /\ Goto(t, "release_ctx")
  /\ handle' = [handle EXCEPT ![t] = h]
  /\ ret' = [ret EXCEPT ![t] = NoRet]
  /\ UNCHANGED <<text, tokens, batch, decode_result, heap, heap_top, llama,
                 batch_live, backend>>

EmbedInProgress(h) == \E u \in Threads : InEmbed(u) /\ handle[u] = h

CallReleaseOwned(t, h) == ~EmbedInProgress(h) /\ CallRelease(t, h)

\* Mutant: the check of line 222 is missing; state->ctx is read through the
\* null pointer and the call crashes.
ReleaseNull_Deref(t) ==
  /\ Goto(t, "crashed")
  /\ UNCHANGED <<locals, ret, heap, ctxs>>

\* nativeRelease, lines 222-224: a null handle returns at once.
ReleaseNull(t) ==
  /\ ReturnRelease(t)
  /\ UNCHANGED <<heap, ctxs>>

\* Mutant: lines 226-229 free the model where they should free the context.
ReleaseCtx_ModelFirst(t) ==
  /\ pc[t] = "release_ctx"
  /\ IF handle[t] = 0
       THEN /\ ReleaseNull(t)
            /\ UNCHANGED models
       ELSE /\ IF heap[handle[t]].model # 0
                 THEN /\ models' = llama_model_free(models, heap[handle[t]].model)
                      /\ heap' = [heap EXCEPT ![handle[t]].model = 0]
                 ELSE UNCHANGED <<heap, models>>
            /\ Goto(t, "release_model")
            /\ UNCHANGED <<locals, ret, ctxs>>
  /\ UNCHANGED <<batch_live, backend, handles, heap_top, calls, output>>

\* nativeRelease, lines 222-229: null handle returns; else free the context.
ReleaseCtx(t) ==
  /\ pc[t] = "release_ctx"
  /\ IF handle[t] = 0
       THEN ReleaseNull(t)
       ELSE /\ IF heap[handle[t]].ctx # 0
                 THEN /\ ctxs' = llama_free(ctxs, heap[handle[t]].ctx)
                      /\ heap' = [heap EXCEPT ![handle[t]].ctx = 0]
                 ELSE UNCHANGED <<heap, ctxs>>
            /\ Goto(t, "release_model")
            /\ UNCHANGED <<locals, ret>>
  /\ UNCHANGED <<models, batch_live, backend, handles, heap_top, calls, output>>

\* nativeRelease, lines 230-233: free the model.
ReleaseModel(t) ==
  /\ pc[t] = "release_model"
  /\ IF heap[handle[t]].model # 0
       THEN /\ models' = llama_model_free(models, heap[handle[t]].model)
            /\ heap' = [heap EXCEPT ![handle[t]].model = 0]
       ELSE UNCHANGED <<heap, models>>
  /\ Goto(t, "release_delete")
  /\ UNCHANGED <<locals, ret, ctxs, batch_live, backend, handles, heap_top, calls, output>>

\* nativeRelease, line 234: delete state.  An embed call still running on the
\* deleted state reads freed storage from here on.
ReleaseDelete(t) ==
  /\ pc[t] = "release_delete"
  /\ heap' = DeleteState(heap, handle[t])
  /\ pc' = [u \in Threads |->
              IF u = t THEN "idle"
              ELSE IF InEmbed(u) /\ handle[u] = handle[t] THEN "embed_ub"
              ELSE pc[u]]
  /\ handle' = [handle EXCEPT ![t] = 0]
  /\ ret' = [ret EXCEPT ![t] = [NoRet EXCEPT !.op = "release", !.h = handle[t]]]
  /\ UNCHANGED <<text, tokens, batch, decode_result, llama, batch_live,
                 backend, handles, heap_top, calls, output>>

ReleaseSteps(t) == ReleaseCtx(t) \/ ReleaseModel(t) \/ ReleaseDelete(t)

InitNext(t) ==
  \/ \E p \in Paths : CallInit(t, p)
  \/ EnsureBackend(t) \/ EnsureReady(t) \/ InitLoad(t) \/ InitCtx(t)

Next ==
  \E t \in Threads :
    \/ InitNext(t)
    \/ EmbedNext(t)
    \/ \E h \in Addr \cup {0} : CallReleaseOwned(t, h)
    \/ ReleaseSteps(t)

Spec == Init /\ [][Next]_vars

\* The steps the library takes inside a nativeInit or nativeEmbed call of
\* thread t.  A thread inside a call keeps running (the calls are blocking
\* native code on the host's own thread, and the library calls they make
\* return), so its steps are weakly fair; std::mutex promises no order among
\* waiters, so that a waiter gets a mutex that is free again and again is an
\* assumption (strong fairness of lines 26 and 162).  The host need not make
\* any call.
ThreadStep(t) ==
  \/ EnsureBackend(t) \/ EnsureReady(t) \/ InitLoad(t) \/ InitCtx(t)
  \/ EmbedEnter(t) \/ EmbedLock(t) \/ EmbedClear(t) \/ EmbedDecode(t)
  \/ EmbedFree(t) \/ EmbedGet(t)
LockStep(t) == EnsureBackend(t) \/ EmbedLock(t)

Fairness ==
  \A t \in Threads : WF_vars(ThreadStep(t)) /\ SF_vars(LockStep(t))

\* Concurrent nativeInit and nativeEmbed callers: inits of any path, embeds
\* on the sessions the host holds, of the empty text (which returns inside
\* the critical section, line 168) and of a text of one token.
FairTexts == {JStr(<<>>), JStr(<<Letter>>)}
NextFair ==
  \E t \in Threads :
    \/ \E p \in Paths : CallInit(t, p)
    \/ EnsureBackend(t) \/ EnsureReady(t) \/ InitLoad(t) \/ InitCtx(t)
    \/ \E h \in Addr, x \in FairTexts : CallEmbed(t, h, x)
    \/ EmbedEnter(t) \/ EmbedLock(t) \/ EmbedClear(t) \/ EmbedDecode(t)
    \/ EmbedFree(t) \/ EmbedGet(t)

FairSpec == Init /\ [][NextFair]_vars /\ Fairness

\* The same library under a host that may release a session while embed calls
\* on it are in progress.
NextRace ==
  \E t \in Threads :
    \/ InitNext(t)
    \/ EmbedNext(t)
    \/ \E h \in Addr \cup {0} : CallRelease(t, h)
    \/ ReleaseSteps(t)
    \/ EmbedUB(t)

SpecRace == Init /\ [][NextRace]_vars

\* The library with two sessions, at the first two heap addresses, each as a
\* successful nativeInit leaves it (lines 130-135: model, context, n_embd,
\* n_ctx set, the mutex free, the backend ready), the host holding both
\* handles, and host threads that call nativeEmbed only, MaxCalls - 1 times.
Sessions == {1, 2}
InitSessions ==
  /\ pc = [t \in Threads |-> "idle"]
  /\ handle = [t \in Threads |-> 0]
  /\ text = [t \in Threads |-> JNull]
  /\ tokens = [t \in Threads |-> <<>>]
  /\ batch = [t \in Threads |-> NoBatch]
  /\ decode_result = [t \in Threads |-> 0]
  /\ batch_live = [t \in Threads |-> 0]
  /\ ret = [t \in Threads |-> NoRet]
  /\ heap = [a \in Addr |->
               IF a \in Sessions
                 THEN [EmbeddingState EXCEPT !.model = a, !.ctx = a,
                                             !.n_embd = llama_model_n_embd(a),
                                             !.n_ctx = llama_n_ctx(a)]
                 ELSE FreeState]
  /\ heap_top = Cardinality(Sessions)
  /\ models = [m \in Addr |->
                 IF m \in Sessions THEN [live |-> TRUE, path |-> GoodPath]
                                   ELSE NoModel]
  /\ ctxs = [c \in Addr |->
               IF c \in Sessions THEN [NoCtx EXCEPT !.live = TRUE, !.model = c]
                                 ELSE NoCtx]
  /\ g_backend_mutex = 0
  /\ g_backend_ready = TRUE
  /\ backend_inits = 1
  /\ handles = Sessions
  /\ calls = 0
  /\ output = <<>>

CallEmbedSessions(t, h, x) == calls + 1 < MaxCalls /\ CallEmbed(t, h, x)

NextSessions ==
  \E t \in Threads :
    \/ \E h \in Sessions \cup {0}, x \in Texts : CallEmbedSessions(t, h, x)
    \/ EmbedEnter(t) \/ EmbedLock(t) \/ EmbedClear(t) \/ EmbedDecode(t)
    \/ EmbedFree(t) \/ EmbedGet(t)

SpecSessions == InitSessions /\ [][NextSessions]_vars

\* ------------------------------------------------ tokenize on any int32_t
\* The least int32_t (count, line 47); its negation at line 57 overflows.
Int32Min == -2147483647 - 1

\* llama_tokenize taken at its declared type rather than at its contract: it
\* hands back a count within the buffer (and has written that many tokens), a
\* count beyond the buffer, a negative count, or the least int32_t.
RawCounts == (-(MaxTextLen + 1) .. (MaxTextLen + 1)) \cup {Int32Min}
RawTokenize(count, n_tokens_max) ==
  [count |-> count,
   written |-> IF count \in 0..n_tokens_max THEN Rep(TokenOf(Letter), count)
                                             ELSE <<>>]

\* tokenize, line 57, for count = INT32_MIN: signed overflow, undefined.  The
\* negation leaves INT32_MIN (it wraps) or whatever the build makes of it.
NegatedMin(max_tokens) == {Int32Min} \cup (0 .. max_tokens + 1)

\* nativeEmbed, lines 162-164 with tokenize, lines 42-64: lock, tokenize.  A
\* count that is still negative at line 62 becomes a size_t beyond max_size():
\* resize throws std::length_error, nothing catches it, the process dies.
EmbedTokenize(t) ==
  /\ pc[t] = "embed_lock"
  /\ SessionValid(t)
  /\ MutexFree(t, handle[t])
  /\ heap' = [heap EXCEPT ![handle[t]].mutex = t]
  /\ LET max_tokens == heap[handle[t]].n_ctx
     IN  IF text[t].s = <<>>
           THEN /\ tokens' = [tokens EXCEPT ![t] = <<>>]
                /\ Goto(t, "embed_tokenized")
           ELSE \E raw \in RawCounts :
                  \E count \in (IF raw = Int32Min THEN NegatedMin(max_tokens)
                                                   ELSE {raw}) :
                    IF count = Int32Min
                      THEN /\ Goto(t, "crashed")
                           /\ UNCHANGED tokens
                      ELSE /\ tokens' = [tokens EXCEPT ![t] =
                                  TokensOf(RawTokenize(count, max_tokens), max_tokens)]
                           /\ Goto(t, "embed_tokenized")
  /\ UNCHANGED <<handle, text, batch, decode_result, ret, llama, batch_live,
                 backend, handles, heap_top, calls, output>>

\* nativeEmbed, lines 166-173: fail on empty tokens, truncate to n_ctx.
EmbedTruncate(t) ==
  /\ pc[t] = "embed_tokenized"
  /\ IF EmptyTokens(tokens[t])
       THEN /\ ReturnEmbedNull(t, "Tokenization produced empty tokens")
            /\ heap' = Unlock(heap, handle[t])
       ELSE /\ tokens' = [tokens EXCEPT ![t] = Truncate(tokens[t], heap[handle[t]].n_ctx)]
            /\ Goto(t, "embed_clear")
            /\ UNCHANGED <<handle, text, batch, decode_result, ret, heap>>
  /\ UNCHANGED <<llama, batch_live, backend, handles, heap_top, calls, output>>

\* nativeEmbed on two live sessions, with the tokenizer taken at its type.
NextTokenize ==
  \E t \in Threads :
    \/ \E h \in Sessions \cup {0}, x \in Texts : CallEmbedSessions(t, h, x)
    \/ EmbedEnter(t) \/ EmbedTokenize(t) \/ EmbedTruncate(t)
    \/ EmbedClear(t) \/ EmbedDecode(t) \/ EmbedFree(t) \/ EmbedGet(t)

SpecTokenize == InitSessions /\ [][NextTokenize]_vars
\* ------------------------------------------------- normalize_l2 on its own
\* The vectors normalize_l2 is tried on: every length up to n_embd + 1, the
\* elements whole numbers from -1 to MaxFloat.  The float x is Float(x).
FloatVals == -1 .. MaxFloat
Float(x) == [n |-> x, d2 |-> 1]
Vectors == UNION {[1..n -> FloatVals] : n \in 0..(NEmbd + 1)}
Unscaled(v) == [i \in 1..Len(v) |-> v[i].n]

\* Thread 1 is about to call normalize_l2(output), line 203, and no other
\* call has been made.
InitNormalize ==
  /\ pc = [t \in Threads |-> IF t = 1 THEN "normalize" ELSE "idle"]
  /\ output \in {[i \in 1..Len(v) |-> Float(v[i])] : v \in Vectors}
  /\ handle = [t \in Threads |-> 0]
  /\ text = [t \in Threads |-> JNull]
  /\ tokens = [t \in Threads |-> <<>>]
  /\ batch = [t \in Threads |-> NoBatch]
  /\ decode_result = [t \in Threads |-> 0]
  /\ batch_live = [t \in Threads |-> 0]
  /\ ret = [t \in Threads |-> NoRet]
  /\ heap = [a \in Addr |-> FreeState]
  /\ heap_top = 0
  /\ models = [m \in Addr |-> NoModel]
  /\ ctxs = [c \in Addr |-> NoCtx]
  /\ g_backend_mutex = 0
  /\ g_backend_ready = FALSE
  /\ backend_inits = 0
  /\ handles = {}
  /\ calls = 0

\* normalize_l2(output), lines 66-78, in place.
Normalize(t) ==
  /\ pc[t] = "normalize"
  /\ output' = normalize_l2(Unscaled(output))
  /\ Goto(t, "idle")
  /\ UNCHANGED <<locals, ret, heap, heap_top, llama, batch_live, backend,
                 handles, calls>>

NextNormalize == \E t \in Threads : Normalize(t)

SpecNormalize == InitNormalize /\ [][NextNormalize]_vars

\* ------------------------------------------------------------------ claims

\* C1: per session, at most one nativeEmbed call at a time is between
\* acquiring the session mutex and returning, and that call is the holder of
\* the mutex; a second caller stays in front of line 162 (it has not started to
\* tokenize or to clear the memory) until the first has returned.
C1_EmbedMutualExclusion ==
  /\ \A t \in Threads : InEmbedCs(t) => heap[handle[t]].mutex = t
  /\ \A t, u \in Threads :
       (t # u /\ InEmbedCs(t) /\ InEmbedCs(u)) => handle[t] # handle[u]

\* C1 witness: one call is inside the critical section while a second call on
\* the same session waits at line 162.
C1_Witness ==
  \E t, u \in Threads :
    /\ InEmbedCs(t)
    /\ pc[u] = "embed_lock"
    /\ handle[u] = handle[t]

\* The vector a successful embed of text s returns on a session whose context
\* holds nothing but this call's tokens.
OwnTokens(s) == Truncate(tokenize(s, NCtx), NCtx)
VectorOf(s) == normalize_l2(CopyEmbd(LlamaEmbd(OwnTokens(s)), NEmbd))

\* C2: the vector a successful nativeEmbed returns is a function of the call's
\* own text alone (one model): whatever other calls ran before it or run
\* concurrently on the session, it is the normalized embedding of a memory
\* holding exactly this call's tokens.
C2_VectorOfOwnText ==
  [][\A t \in Threads :
       (InEmbed(t) /\ pc'[t] = "idle" /\ ~ret'[t].null)
         => ret'[t].val = VectorOf(text[t].s)]_vars

\* C2 witness: two calls on one session have returned different vectors (they
\* had different texts), and neither is the other's.
C2_Witness ==
  \E t, u \in Threads :
    /\ t # u
    /\ ret[t].op = "embed" /\ ~ret[t].null
    /\ ret[u].op = "embed" /\ ~ret[u].null
    /\ ret[t].val # ret[u].val
\* A nativeEmbed call of thread t has passed the validity check of line 150.
PastValidityCheck(t) == pc[t] \in {"embed_lock"} \cup EmbedCsPcs

\* C3 (as claimed): nativeRelease is serialized with nativeEmbed by the session
\* mutex: while an embed call is between its validity check and its return,
\* the session storage, the context and the model it uses are not freed.
C3_ReleaseSerializedWithEmbed ==
  \A t \in Threads :
    /\ pc[t] # "embed_ub"
    /\ PastValidityCheck(t) =>
         /\ heap[handle[t]].live
         /\ heap[handle[t]].ctx # 0 /\ ctxs[heap[handle[t]].ctx].live
         /\ heap[handle[t]].model # 0 /\ models[heap[handle[t]].model].live

\* The vector in the session's context, copied over n_embd elements and
\* normalized.
PooledVector(st) == normalize_l2(CopyEmbd(LlamaEmbd(ctxs[st.ctx].embd_src), st.n_embd))

\* C4: nativeEmbed returns null or an array of exactly n_embd floats holding
\* the whole normalized embedding; a null handle, a null text, an empty
\* text and a non-zero decode result give null.
C4_NullOrWholeVector ==
  [][\A t \in Threads :
       (InEmbed(t) /\ pc'[t] = "idle" /\ ~ret'[t].null)
         => /\ pc[t] = "embed_get"
            /\ handle[t] # 0 /\ ~text[t].null /\ text[t].s # <<>>
            /\ decode_result[t] = 0
            /\ Len(ret'[t].val) = heap[handle[t]].n_embd
            /\ ret'[t].val = PooledVector(heap[handle[t]])]_vars

\* C4 witness: one call has returned a whole vector of n_embd floats and
\* another has returned null after a failed decode.
C4_Witness ==
  \E t, u \in Threads :
    /\ ret[t].op = "embed" /\ ~ret[t].null /\ Len(ret[t].val) = NEmbd
    /\ ret[u].op = "embed" /\ ret[u].null /\ ret[u].log = "llama_decode failed"

\* A live EmbeddingState belongs to a session the host holds the handle of,
\* to a nativeInit still building it, or to the nativeRelease destroying it.
Accounted(a) ==
  \/ a \in handles
  \/ \E t \in Threads : pc[t] \in {"init_ctx"} \cup ReleasePcs /\ handle[t] = a

\* C5: a failed nativeInit returns 0 and retains nothing: every live
\* EmbeddingState is accounted for, and every live model and context hangs on a
\* live EmbeddingState; so with all calls returned the live objects are those
\* of the sessions the host holds, however many inits failed.
C5_FailedInitRetainsNothing ==
  /\ \A a \in Addr : heap[a].live => Accounted(a)
  /\ \A m \in Addr : models[m].live =>
       Cardinality({a \in Addr : heap[a].live /\ heap[a].model = m}) = 1
  /\ \A c \in Addr : ctxs[c].live =>
       Cardinality({a \in Addr : heap[a].live /\ heap[a].ctx = c}) = 1
  /\ \A t \in Threads :
       (ret[t].op = "init" /\ ret[t].log # "") => ret[t].h = 0 /\ ret[t].null

\* C5 witness: an init has failed at the model load and another at the context
\* construction, both have returned, and nothing is live.
C5_Witness ==
  \E t, u \in Threads :
    /\ ret[t].op = "init" /\ ret[t].log = "Failed to load model"
    /\ ret[u].op = "init" /\ ret[u].log = "Failed to init context"
    /\ LiveAddrs = {} /\ LiveModels = {} /\ LiveCtxs = {}

\* C6 (as claimed): a session whose handle init has returned and whose storage
\* is not freed has model and context both present or both absent, in every
\* state a concurrent embed call on it can see.
C6_ModelAndContextTogether ==
  \A a \in Addr :
    (/\ heap[a].live
     /\ ~(\E t \in Threads : pc[t] = "init_ctx" /\ handle[t] = a)
     /\ \E u \in Threads : InEmbed(u) /\ handle[u] = a)
      => ((heap[a].model = 0) <=> (heap[a].ctx = 0))

\* C7: llama_backend_init runs at most once, and it has run, and the ready
\* flag is set, before any thread goes on to load a model.
C7_BackendInitOnce ==
  /\ backend_inits <= 1
  /\ g_backend_ready => backend_inits = 1
  /\ \A t \in Threads :
       pc[t] \in {"init_load", "init_ctx"} => g_backend_ready /\ backend_inits = 1
  /\ \A t \in Threads : ret[t].op = "init" => backend_inits = 1
  /\ LiveModels # {} => backend_inits = 1

\* C7 witness: one thread is inside ensure_backend having run
\* llama_backend_init, a second one waits for g_backend_mutex.
C7_Witness ==
  \E t, u \in Threads :
    /\ pc[t] = "ensure_ready" /\ g_backend_mutex = t
    /\ pc[u] = "ensure_backend"
    /\ backend_inits = 1

\* C8 (as claimed): a text with more than n_ctx tokens is decoded as a batch of
\* exactly n_ctx tokens, the first n_ctx tokens of its tokenization.
C8_TruncatesToPrefix ==
  \A t \in Threads :
    (pc[t] = "embed_decode" /\ Len(FullTokens(text[t].s)) > heap[handle[t]].n_ctx)
      => /\ batch[t].n_tokens = heap[handle[t]].n_ctx
         /\ batch[t].token = SubSeq(FullTokens(text[t].s), 1, heap[handle[t]].n_ctx)

\* C9: nativeEmbed of the empty string on a valid session returns null with
\* "Tokenization produced empty tokens"; the call never gets past line 169: it
\* clears no memory, allocates no batch, decodes nothing.
C9_EmptyTextFails ==
  [][\A t \in Threads :
       (InEmbed(t) /\ handle[t] # 0 /\ text[t] = JStr(<<>>) /\ pc'[t] # pc[t])
         => /\ \/ pc[t] = "embed_enter" /\ pc'[t] = "embed_lock"
               \/ /\ pc[t] = "embed_lock" /\ pc'[t] = "idle"
                  /\ ret'[t].null
                  /\ ret'[t].log = "Tokenization produced empty tokens"
            /\ ctxs' = ctxs
            /\ batch_live' = batch_live]_vars

\* C9 witness: an embed of the empty string has returned null with the
\* empty-tokens error while the session is still live.
C9_Witness ==
  \E t \in Threads :
    /\ ret[t].op = "embed" /\ ret[t].null
    /\ ret[t].log = "Tokenization produced empty tokens"
    /\ handles # {}

\* C10: a nativeEmbed that returns null leaves the session as it was (model,
\* context, n_embd, n_ctx, storage), does not hold the mutex, leaves no batch
\* allocated; and every decode, after a failed call too, starts from a cleared
\* context memory.
C10_FailedEmbedLeavesSessionReusable ==
  [][\A t \in Threads :
       /\ (InEmbed(t) /\ handle[t] # 0 /\ pc'[t] = "idle" /\ ret'[t].null)
            => /\ heap'[handle[t]].live
               /\ heap'[handle[t]].model = heap[handle[t]].model
               /\ heap'[handle[t]].ctx = heap[handle[t]].ctx
               /\ heap'[handle[t]].n_embd = heap[handle[t]].n_embd
               /\ heap'[handle[t]].n_ctx = heap[handle[t]].n_ctx
               /\ heap'[handle[t]].mutex # t
               /\ (heap[handle[t]].mutex = t => heap'[handle[t]].mutex = 0)
               /\ models' = models
               /\ ctxs'[heap[handle[t]].ctx].live
               /\ batch_live'[t] = 0
       /\ pc'[t] = "embed_decode" =>
            ctxs'[heap'[handle'[t]].ctx].mem = <<>>]_vars

\* C10 witness: a call has failed in llama_decode and returned, and a later
\* call on the session has decoded and is about to fetch its embedding.
C10_Witness ==
  \E t, u \in Threads :
    /\ ret[t].op = "embed" /\ ret[t].null /\ ret[t].log = "llama_decode failed"
    /\ pc[u] = "embed_get" /\ decode_result[u] = 0
    /\ ctxs[heap[handle[u]].ctx].has_embd

\* A step of thread t inside a nativeEmbed call (the call's own entry is the
\* host's step).
EmbedStep(t) == InEmbed(t) /\ pc'[t] # pc[t]

\* The context of the session thread t's call is on (0: none).
OwnCtx(t) == IF handle[t] = 0 THEN 0 ELSE heap[handle[t]].ctx

\* C11: nativeEmbed calls on distinct sessions are independent.  A call at
\* line 162 whose own session's mutex is free can take it whatever the other
\* sessions' mutexes are; and every step of a call on session A leaves every
\* other EmbeddingState (model, ctx, n_embd, n_ctx, mutex), every model and
\* every other context with its memory unchanged.
C11_DistinctSessionsIndependent ==
  /\ [](\A t \in Threads :
          (pc[t] = "embed_lock" /\ heap[handle[t]].mutex = 0)
            => ENABLED EmbedLock(t))
  /\ [][\A t \in Threads :
          EmbedStep(t) =>
            /\ \A b \in Addr \ {handle[t]} : heap'[b] = heap[b]
            /\ \A c \in Addr \ {OwnCtx(t)} : ctxs'[c] = ctxs[c]
            /\ models' = models]_vars

\* C11 witness: two calls on two different sessions are inside their critical
\* sections at the same time, each holding its own session's mutex, the
\* second having taken it while the first one's was held.
C11_Witness ==
  \E t, u \in Threads :
    /\ t # u /\ handle[t] # handle[u]
    /\ pc[t] = "embed_decode" /\ heap[handle[t]].mutex = t
    /\ pc[u] = "embed_clear" /\ heap[handle[u]].mutex = u
    /\ ctxs[heap[handle[t]].ctx].mem = <<>>

\* C12 (amended): nativeInit never returns the handle of a session that is
\* still live: the EmbeddingState an init builds is at an address no handle
\* the host holds names and no other init builds on, and every handle the
\* host holds names a live EmbeddingState of its own.
C12_LiveHandlesDistinct ==
  /\ \A t \in Threads :
       pc[t] = "init_ctx" =>
         /\ heap[handle[t]].live
         /\ handle[t] \notin handles
         /\ \A u \in Threads \ {t} :
              pc[u] \in {"init_ctx"} \cup ReleasePcs => handle[u] # handle[t]
  /\ \A a \in handles : heap[a].live /\ heap[a].model # 0 /\ heap[a].ctx # 0
  /\ \A a, b \in handles :
       a # b => heap[a].model # heap[b].model /\ heap[a].ctx # heap[b].ctx

\* C12 (as claimed): nativeInit never returns a handle value that was passed
\* to nativeRelease before: a handle a release call has destroyed is not a
\* handle the host holds from an init; and two live sessions never share a
\* handle.
C12_HandleNeverReissued ==
  /\ \A t \in Threads :
       (ret[t].op = "release" /\ ret[t].h # 0) => ret[t].h \notin handles
  /\ C12_LiveHandlesDistinct

\* C12 witness: a session has been destroyed and a later nativeInit has
\* returned the same handle value for a new, live session.
C12_Witness ==
  \E t \in Threads :
    /\ ret[t].op = "release" /\ ret[t].h # 0
    /\ ret[t].h \in handles
    /\ heap[ret[t].h].live /\ heap[ret[t].h].ctx # 0

\* The sessions, the llama objects and the backend.
engine == <<heap, heap_top, models, ctxs, backend, batch_live>>

\* C13: nativeRelease(0) is a no-op: from its entry to its return, which is
\* its next step, nothing is freed; every EmbeddingState, model and context,
\* the backend-ready flag and the handles the host holds stay as they are.
C13_ReleaseNullNoOp ==
  [][\A t \in Threads :
       /\ (pc[t] = "idle" /\ pc'[t] = "release_ctx" /\ handle'[t] = 0)
            => (engine' = engine /\ handles' = handles)
       /\ (pc[t] = "release_ctx" /\ handle[t] = 0 /\ pc'[t] # pc[t])
            => /\ pc'[t] = "idle"
               /\ ret'[t].op = "release"
               /\ engine' = engine /\ handles' = handles]_vars

\* C13 witness: a nativeRelease(0) has returned while a session is live and
\* its handle held.
C13_Witness ==
  \E t \in Threads, a \in handles :
    /\ ret[t].op = "release" /\ ret[t].h = 0
    /\ heap[a].live /\ ctxs[heap[a].ctx].live /\ models[heap[a].model].live
    /\ g_backend_ready

\* C14: the batch of a nativeEmbed call is allocated at line 177 and freed at
\* line 188, once: the call has exactly one batch outstanding while it is
\* about to decode or has decoded and not yet freed, and none at any other
\* point: not when it examines the decode result (which it does having freed
\* the batch), not when it fetches the embedding, not after it has returned,
\* with a failed decode or a good one.
C14_BatchFreedOnceInCall ==
  \A t \in Threads :
    /\ batch_live[t] = (IF pc[t] \in {"embed_decode", "embed_free"} THEN 1 ELSE 0)
    /\ pc[t] = "embed_free" => batch[t].n_tokens = Len(tokens[t])
    /\ (pc[t] = "idle" /\ ret[t].op = "embed") => batch_live[t] = 0

\* C14 witness: one call has returned after a failed decode, another has
\* decoded well and gone on to fetch its embedding, a third batch is not
\* outstanding anywhere.
C14_Witness ==
  \E t, u \in Threads :
    /\ pc[t] = "idle" /\ ret[t].log = "llama_decode failed"
    /\ pc[u] = "embed_get" /\ decode_result[u] = 0
    /\ \A v \in Threads : batch_live[v] = 0

\* C15 (as claimed): whatever count the tokenizer hands back (within the
\* buffer, beyond it, negative, INT32_MIN), tokenize returns a sequence, of
\* at most n_ctx tokens, and the sequence the batch is built from has at most
\* n_ctx tokens.
C15_TokenLengthBounded ==
  \A t \in Threads :
    /\ pc[t] # "crashed"
    /\ pc[t] = "embed_tokenized" => Len(tokens[t]) \in 0..heap[handle[t]].n_ctx
    /\ pc[t] = "embed_clear" => Len(tokens[t]) \in 0..heap[handle[t]].n_ctx

\* The log line of the first precondition of nativeEmbed that fails for
\* thread t's call, in the order handle, model/context, text ("": none).
FirstFailure(t) ==
  IF handle[t] = 0 THEN "Embedding handle is null"
  ELSE IF heap[handle[t]].ctx = 0 \/ heap[handle[t]].model = 0
    THEN "Embedding state is invalid"
  ELSE IF text[t].null THEN "Embedding text is null"
  ELSE ""

\* C16: nativeEmbed checks handle, then model/context, then text.  The call
\* whose first failing check is k returns null with k's log line, whatever
\* the later checks would say, in the one step that follows its entry: it
\* has not touched the mutex, tokenized, cleared a memory or built a batch.
\* Only a call that passes all three goes on to line 162.
C16_ChecksInOrder ==
  [][\A t \in Threads :
       (pc[t] = "embed_enter" /\ pc'[t] \notin {"embed_enter", "embed_ub"})
         => /\ IF FirstFailure(t) = ""
                 THEN pc'[t] = "embed_lock"
                 ELSE /\ pc'[t] = "idle"
                      /\ ret'[t].op = "embed" /\ ret'[t].null
                      /\ ret'[t].log = FirstFailure(t)
            /\ tokens[t] = <<>> /\ tokens'[t] = <<>>
            /\ heap' = heap /\ ctxs' = ctxs /\ batch_live' = batch_live]_vars

\* C16 witness: a call has returned null at the second check: the session
\* it was given has lost its context to a release running beside it.
C16_Witness ==
  \E t, u \in Threads :
    /\ ret[u].op = "embed" /\ ret[u].log = "Embedding state is invalid"
    /\ pc[u] = "idle"
    /\ pc[t] \in ReleasePcs /\ handle[t] # 0

\* What one step of nativeRelease(h), h non-null, at control point l frees.
ReleaseStepOk(t, l) ==
  LET st == heap[handle[t]]
  IN  CASE l = "release_ctx" ->
             /\ pc'[t] = "release_model"
             /\ heap' = [heap EXCEPT ![handle[t]].ctx = 0]
             /\ models' = models
             /\ IF st.ctx # 0
                  THEN /\ ctxs[st.ctx].live
                       /\ ctxs' = [ctxs EXCEPT ![st.ctx] = NoCtx]
                  ELSE ctxs' = ctxs
        [] l = "release_model" ->
             /\ pc'[t] = "release_delete"
             /\ heap' = [heap EXCEPT ![handle[t]].model = 0]
             /\ ctxs' = ctxs
             /\ IF st.model # 0
                  THEN /\ models[st.model].live
                       /\ models' = [models EXCEPT ![st.model] = NoModel]
                  ELSE models' = models
        [] l = "release_delete" ->
             /\ pc'[t] = "idle"
             /\ st.live /\ ~heap'[handle[t]].live
             /\ \A b \in Addr \ {handle[t]} : heap'[b] = heap[b]
             /\ ctxs' = ctxs /\ models' = models

\* C17: nativeRelease(h), h non-null, frees the context, then the model, then
\* the EmbeddingState, in three steps, each freeing its object once (it was
\* live, or the reference was null and nothing is freed) and nothing else.
\* The model is freed with the context's reference already null, the
\* storage with both null, and no context is ever live with its model freed.
C17_ReleaseOrder ==
  /\ [](/\ \A t \in Threads :
            /\ (pc[t] \in ReleasePcs /\ handle[t] # 0) => heap[handle[t]].live
            /\ pc[t] = "release_model" => heap[handle[t]].ctx = 0
            /\ pc[t] = "release_delete" =>
                 heap[handle[t]].ctx = 0 /\ heap[handle[t]].model = 0
         /\ \A c \in Addr : ctxs[c].live => models[ctxs[c].model].live)
  /\ [][\A t \in Threads :
          (pc[t] \in ReleasePcs /\ handle[t] # 0 /\ pc'[t] # pc[t])
            => ReleaseStepOk(t, pc[t])]_vars

\* C17 witness: a release has freed the context and the model of its session
\* and is about to delete the EmbeddingState, which is still allocated.
C17_Witness ==
  \E t \in Threads :
    /\ pc[t] = "release_delete"
    /\ heap[handle[t]].live
    /\ heap[handle[t]].ctx = 0 /\ heap[handle[t]].model = 0
    /\ LiveCtxs = {} /\ LiveModels = {}

\* C18: every call returns.  A nativeEmbed call on a live session, waiting
\* for the mutex or holding it, eventually returns, and so does a nativeInit
\* call waiting for or holding g_backend_mutex; a mutex is held by a call
\* that is inside its critical section only, so every return path has
\* released it; and while any call is in progress some call can take a step.
C18_CallsReturn ==
  /\ \A t \in Threads : (InEmbed(t) \/ InInit(t)) ~> (pc[t] = "idle")
  /\ [](\A a \in Addr :
          (heap[a].live /\ heap[a].mutex # 0)
            => InEmbedCs(heap[a].mutex) /\ handle[heap[a].mutex] = a)
  /\ [](g_backend_mutex # 0 => pc[g_backend_mutex] = "ensure_ready")
  /\ []((\E t \in Threads : pc[t] # "idle") => ENABLED (\E t \in Threads : ThreadStep(t)))

\* C18 witness: a call waits at line 162 for the mutex of a session whose
\* holder is on the failure path of lines 190-193, about to return; a
\* third party, if any, is idle.
C18_Witness ==
  \E t, u \in Threads :
    /\ pc[t] = "embed_free" /\ decode_result[t] # 0
    /\ heap[handle[t]].mutex = t
    /\ pc[u] = "embed_lock" /\ handle[u] = handle[t]

\* C19: the batch handed to llama_decode for a token sequence of length L,
\* 1 <= L <= n_ctx, has n_tokens = L and arrays of exactly L entries, and for
\* every i in [0, L) (here 1..L, positions counted from 0): token[i] is the
\* i-th token, pos[i] = i, n_seq_id[i] = 1, seq_id[i] is the one sequence 0,
\* and logits[i] is set.
C19_BatchConstruction ==
  \A t \in Threads :
    pc[t] = "embed_decode" =>
      LET b == batch[t]
          L == Len(tokens[t])
      IN  /\ L \in 1..heap[handle[t]].n_ctx
          /\ b.n_tokens = L
          /\ Len(b.token) = L /\ Len(b.pos) = L /\ Len(b.n_seq_id) = L
          /\ Len(b.seq_id) = L /\ Len(b.logits) = L
          /\ \A i \in 1..L :
               /\ b.token[i] = tokens[t][i]
               /\ b.pos[i] = i - 1
               /\ b.n_seq_id[i] = 1
               /\ b.seq_id[i] = <<0>>
               /\ b.logits[i] = 1

\* C19 witness: a call is about to decode a batch of n_ctx tokens, more
\* than one, built from a text of that many tokens.
C19_Witness ==
  \E t \in Threads :
    /\ pc[t] = "embed_decode"
    /\ batch[t].n_tokens = heap[handle[t]].n_ctx
    /\ batch[t].n_tokens > 1
    /\ Len(text[t].s) = batch[t].n_tokens
    /\ batch[t].pos[batch[t].n_tokens] = batch[t].n_tokens - 1

\* The float f is the fraction p / q (q > 0): f.n / sqrt(f.d2) = p / q.
IsRatio(f, p, q) == f.n * p >= 0 /\ f.n * f.n * q * q = p * p * f.d2

\* C20: normalize_l2 leaves a vector whose sum of squares is <= 0 as it is,
\* an all-zero vector of any length in particular (the empty one too); any
\* other vector keeps its length and has every element multiplied by the one
\* factor 1 / sqrt(sum of squares), so that the result has length 1 and
\* <<3, 4>> becomes <<0.6, 0.8>>.
C20_NormalizeL2 ==
  [][\A t \in Threads :
       (pc[t] = "normalize" /\ pc'[t] = "idle") =>
         LET in == Unscaled(output)
             sum == SumSq(in)
         IN  /\ Len(output') = Len(output)
             /\ (\A i \in 1..Len(in) : in[i] = 0) => output' = output
             /\ sum <= 0 => output' = output
             /\ sum > 0 =>
                  /\ \A i \in 1..Len(in) :
                       output'[i].n = in[i] /\ output'[i].d2 = sum
                  /\ SumSq(Unscaled(output')) = output'[1].d2
             /\ in = <<3, 4>> =>
                  IsRatio(output'[1], 6, 10) /\ IsRatio(output'[2], 8, 10)]_vars

\* C20 witness: normalize_l2 has run on <<3, 4>> and left <<0.6, 0.8>>.
C20_Witness ==
  /\ \A t \in Threads : pc[t] = "idle"
  /\ Unscaled(output) = <<3, 4>>
  /\ IsRatio(output[1], 6, 10) /\ IsRatio(output[2], 8, 10)
====
